---- MODULE Spec2Model ----
(***************************************************************************)
(* Model of extractStructures (src/extractStructuresSerial.py): per        *)
(* threshold, the scalar field is thresholded, padded by one layer, and    *)
(* labelled by a 26-neighbour flood fill with an optional marching-cubes   *)
(* correction; the label counts give the percolation record.               *)
(***************************************************************************)
EXTENDS Integers, Sequences, FiniteSets, TLC

\* ---------------------------------------------------------------- bounds
MaxThresholds == 2
MaxSparseCells == 2
MaxCells == 8

\* ------------------------------------------------------- n-d array helpers
\* An array is [shape |-> <<d1, ..>>, data |-> [index tuple |-> value]],
\* indices 0-based as in numpy.

RECURSIVE Product(_)
Product(s) == IF s = <<>> THEN 1 ELSE Head(s) * Product(Tail(s))

Size(a) == Product(a.shape)

Indices(shp) ==
    IF Len(shp) = 1
    THEN {<<n>> : n \in 0..(shp[1] - 1)}
    ELSE {<<a, b, d>> : a \in 0..(shp[1] - 1), b \in 0..(shp[2] - 1), d \in 0..(shp[3] - 1)}

\* position of an index tuple in memory order: 'C' = last axis fastest,
\* 'F' = first axis fastest
RECURSIVE FlatC(_, _, _)
FlatC(idx, shp, n) ==
    IF n = 0 THEN 0 ELSE FlatC(idx, shp, n - 1) * shp[n] + idx[n]

RECURSIVE FlatF(_, _, _)
FlatF(idx, shp, n) ==
    IF n > Len(shp) THEN 0 ELSE idx[n] + shp[n] * FlatF(idx, shp, n + 1)

FlatIndex(idx, shp, order) ==
    IF order = "C" THEN FlatC(idx, shp, Len(shp)) ELSE FlatF(idx, shp, 1)

\* np.reshape(a, shp, order): defined only when the sizes agree
\* (numpy raises ValueError otherwise)
ReshapeOK(a, shp) == Size(a) = Product(shp)

Reshape(a, shp, order) ==
    [shape |-> shp,
     data  |-> [idx \in Indices(shp) |->
                  LET n == FlatIndex(idx, shp, order)
                      s == CHOOSE q \in Indices(a.shape) :
                               FlatIndex(q, a.shape, order) = n
                  IN  a.data[s]]]

\* np.zeros(shp) of booleans / of integers
Zeros(shp, z) == [shape |-> shp, data |-> [idx \in Indices(shp) |-> z]]

\* a Python index n on an axis of length d: negative indices count from the
\* end, anything outside -d..d-1 raises IndexError
\* an index test that refuses negative indices
IndexNonNegative(n, d) == 0 <= n /\ n < d

IndexOK(n, d) == n >= -d /\ n < d
\* a negative index landing on the last layer of the unpadded field
WrapIndexUnpadded(n, d) == IF n < 0 THEN n + d - 1 ELSE n

WrapIndex(n, d) == IF n < 0 THEN n + d ELSE n

CellOK(cell, shp) == \A a \in 1..3 : IndexOK(cell[a], shp[a])
WrapCell(cell, shp) ==
    <<WrapIndex(cell[1], shp[1]), WrapIndex(cell[2], shp[2]), WrapIndex(cell[3], shp[3])>>

Plus(cell, off) == <<cell[1] + off[1], cell[2] + off[2], cell[3] + off[3]>>

\* ------------------------------------------------------------ thresholds
\* A threshold is [nan |-> BOOLEAN, val |-> Int]; every comparison with NaN
\* is False.
Num(v) == [nan |-> FALSE, val |-> v]
NaN == [nan |-> TRUE, val |-> 0]

GreaterThan(v, t) == ~t.nan /\ v > t.val
LessThan(v, t) == ~t.nan /\ v < t.val

\* the sign test taking 0 for a positive threshold
ThreshNotNegative(t) == ~t.nan /\ t.val >= 0

\* line 39: _threshVal > 0
ThreshPositive(t) == ~t.nan /\ t.val > 0

\* lines 39-44
ThresholdField(a, t) ==
    IF ThreshPositive(t)
    THEN [shape |-> a.shape, data |-> [idx \in DOMAIN a.data |-> GreaterThan(a.data[idx], t)]]
    ELSE [shape |-> a.shape, data |-> [idx \in DOMAIN a.data |-> LessThan(a.data[idx], t)]]

\* lines 48-50: mz = zeros((xlen+1, ylen+1, zlen+1)); mz[:sx, :sy, :sz] = c
PadGrid(a, X, Y, Z) ==
    [shape |-> <<X + 1, Y + 1, Z + 1>>,
     data  |-> [idx \in Indices(<<X + 1, Y + 1, Z + 1>>) |->
                  IF idx[1] < a.shape[1] /\ idx[2] < a.shape[2] /\ idx[3] < a.shape[3]
                  THEN a.data[idx] ELSE FALSE]]

\* ------------------------------------------------- the 26 neighbour blocks
\* In source order: the flag a block raises, the offset it reads, tests and
\* labels, and whether it stores _structVal (line 305) instead of 1 in
\* _auxCube.
\* lines 143-233
FaceBlocks ==
    <<[flag |-> "f1", off |-> <<1, 0, 0>>, auxStruct |-> FALSE],
      [flag |-> "f2", off |-> <<-1, 0, 0>>, auxStruct |-> FALSE],
      [flag |-> "f3", off |-> <<0, 1, 0>>, auxStruct |-> FALSE],
      [flag |-> "f4", off |-> <<0, -1, 0>>, auxStruct |-> FALSE],
      [flag |-> "f5", off |-> <<0, 0, 1>>, auxStruct |-> FALSE],
      [flag |-> "f6", off |-> <<0, 0, -1>>, auxStruct |-> FALSE]>>

\* lines 235-417
EdgeBlocks ==
    <<[flag |-> "e1", off |-> <<1, 1, 0>>, auxStruct |-> FALSE],
      [flag |-> "e2", off |-> <<1, -1, 0>>, auxStruct |-> FALSE],
      [flag |-> "e3", off |-> <<-1, 1, 0>>, auxStruct |-> FALSE],
      [flag |-> "e4", off |-> <<-1, -1, 0>>, auxStruct |-> FALSE],
      [flag |-> "e5", off |-> <<1, 0, 1>>, auxStruct |-> TRUE],
      [flag |-> "e6", off |-> <<-1, 0, 1>>, auxStruct |-> FALSE],
      [flag |-> "e7", off |-> <<0, 1, 1>>, auxStruct |-> FALSE],
      [flag |-> "e8", off |-> <<0, -1, 1>>, auxStruct |-> FALSE],
      [flag |-> "e9", off |-> <<1, 0, -1>>, auxStruct |-> FALSE],
      [flag |-> "e10", off |-> <<-1, 0, -1>>, auxStruct |-> FALSE],
      [flag |-> "e11", off |-> <<0, 1, -1>>, auxStruct |-> FALSE],
      [flag |-> "e12", off |-> <<0, -1, -1>>, auxStruct |-> FALSE]>>

\* the first corner block reading c[i+1, j+1, k-1] like the fifth
CornerBlocksTypo ==
    <<[flag |-> "c1", off |-> <<1, 1, -1>>, auxStruct |-> FALSE],
      [flag |-> "c2", off |-> <<1, -1, 1>>, auxStruct |-> FALSE],
      [flag |-> "c3", off |-> <<-1, 1, 1>>, auxStruct |-> FALSE],
      [flag |-> "c4", off |-> <<-1, -1, 1>>, auxStruct |-> FALSE],
      [flag |-> "c5", off |-> <<1, 1, -1>>, auxStruct |-> FALSE],
      [flag |-> "c6", off |-> <<1, -1, -1>>, auxStruct |-> FALSE],
      [flag |-> "c7", off |-> <<-1, 1, -1>>, auxStruct |-> FALSE],
      [flag |-> "c8", off |-> <<-1, -1, -1>>, auxStruct |-> FALSE]>>

\* lines 419-537
CornerBlocks ==
    <<[flag |-> "c1", off |-> <<1, 1, 1>>, auxStruct |-> FALSE],
      [flag |-> "c2", off |-> <<1, -1, 1>>, auxStruct |-> FALSE],
      [flag |-> "c3", off |-> <<-1, 1, 1>>, auxStruct |-> FALSE],
      [flag |-> "c4", off |-> <<-1, -1, 1>>, auxStruct |-> FALSE],
      [flag |-> "c5", off |-> <<1, 1, -1>>, auxStruct |-> FALSE],
      [flag |-> "c6", off |-> <<1, -1, -1>>, auxStruct |-> FALSE],
      [flag |-> "c7", off |-> <<-1, 1, -1>>, auxStruct |-> FALSE],
      [flag |-> "c8", off |-> <<-1, -1, -1>>, auxStruct |-> FALSE]>>

Blocks == FaceBlocks \o EdgeBlocks \o CornerBlocks

FlagNames == {Blocks[n].flag : n \in 1..Len(Blocks)}

\* lines 795-871: the order in which _auxCube entries are promoted to
\* _neighborVal
AppendOrder ==
    <<<<1, 0, 0>>, <<-1, 0, 0>>, <<0, 1, 0>>, <<0, -1, 0>>,
      <<0, 0, 1>>, <<0, 0, -1>>, <<1, 1, 0>>, <<1, -1, 0>>,
      <<-1, 1, 0>>, <<-1, -1, 0>>, <<1, 0, 1>>, <<-1, 0, 1>>,
      <<0, 1, 1>>, <<0, -1, 1>>, <<1, 0, -1>>, <<-1, 0, -1>>,
      <<0, 1, -1>>, <<0, -1, -1>>, <<1, 1, 1>>, <<1, -1, 1>>,
      <<-1, 1, 1>>, <<-1, -1, 1>>, <<1, 1, -1>>, <<1, -1, -1>>,
      <<-1, 1, -1>>, <<-1, -1, -1>>>>

\* lines 548-555: the octant flag lists; "True" is the cell being expanded
cube1 == <<"f6", "e9", "c6", "e12", "True", "f1", "e2", "f4">>
cube2 == <<"e10", "f6", "e12", "c8", "f2", "True", "f4", "e4">>
cube3 == <<"c7", "e11", "f6", "e10", "e3", "f3", "True", "f2">>
cube4 == <<"e11", "c5", "e9", "f6", "f3", "e1", "f1", "True">>
\* the list of octant 5 with two of its flags exchanged
cube5Exchanged == <<"True", "f1", "e2", "f4", "f5", "c2", "e5", "e8">>

cube5 == <<"True", "f1", "e2", "f4", "f5", "e5", "c2", "e8">>
cube6 == <<"f2", "True", "f4", "e4", "e6", "f5", "e8", "c4">>
cube7 == <<"e3", "f3", "True", "f2", "c3", "e7", "f5", "e6">>
cube8 == <<"f3", "e1", "f1", "True", "e7", "c1", "e5", "f5">>

Cubes == <<cube1, cube2, cube3, cube4, cube5, cube6, cube7, cube8>>

\* lines 581, 608, ..., 770: the corner index tested as "contains [i, j, k]"
\* for octant ii = 0..7
AnchorIndex == <<4, 5, 6, 7, 0, 1, 2, 3>>

\* lines 579-793: the cell each retraction branch resets, per octant and
\* corner index (NoBranch where the octant has no branch for the index)
NoBranch == <<0, 0, 0>>

RemoveOffsets ==
    <<<<<<0, 0, -1>>, <<1, 0, -1>>, <<1, -1, -1>>, <<0, -1, -1>>, <<0, 0, 0>>, <<1, 0, 0>>, <<1, -1, 0>>, <<0, -1, 0>>>>,
      <<<<-1, 0, -1>>, <<0, 0, -1>>, <<0, -1, -1>>, <<-1, -1, -1>>, <<-1, 0, 0>>, <<0, 0, 0>>, <<0, -1, 0>>, <<-1, -1, 0>>>>,
      <<<<-1, 1, -1>>, <<0, 1, -1>>, <<0, 0, -1>>, <<-1, 0, -1>>, <<-1, 1, 0>>, <<0, 1, 0>>, <<0, 0, 0>>, <<-1, 0, 0>>>>,
      <<<<0, 1, -1>>, <<1, 1, -1>>, <<1, 0, -1>>, <<0, 0, -1>>, <<0, 1, 0>>, <<1, 1, 0>>, <<1, 0, 0>>, <<0, 0, 0>>>>,
      <<<<0, 0, 0>>, <<1, 0, 0>>, <<1, -1, 0>>, <<0, -1, 0>>, <<0, 0, 1>>, <<1, 0, 1>>, <<1, -1, 1>>, <<0, -1, 1>>>>,
      <<<<-1, 0, 0>>, <<0, 0, 0>>, <<0, -1, 0>>, <<-1, -1, 0>>, <<-1, 0, 1>>, <<0, 0, 1>>, <<0, -1, 1>>, <<-1, -1, 1>>>>,
      <<<<-1, 1, 0>>, <<0, 1, 0>>, <<0, 0, 0>>, <<-1, 0, 0>>, <<-1, 1, 1>>, <<0, 1, 1>>, <<0, 0, 1>>, <<-1, 0, 1>>>>,
      <<<<0, 1, 0>>, <<1, 1, 0>>, <<1, 0, 0>>, <<0, 0, 0>>, <<0, 1, 1>>, <<1, 1, 1>>, <<1, 0, 1>>, <<0, 0, 1>>>>>>

\* ----------------------------------------------------- one expansion step
AuxIndex(off) == <<off[1] % 3, off[2] % 3, off[3] % 3>>

\* a link test that leaves out the label test
LinkableIgnoringLabel(occ, grid, w) == occ.data[w]

\* lines 147-149 (and alike in every block): the neighbour is occupied and
\* carries no label yet
Linkable(occ, grid, w) == occ.data[w] /\ ~(grid.data[w] > 0)

\* lines 143-537: the 26 guarded blocks, run in source order on the cell
\* `cell`.  A block acts when its index is in range (no IndexError), its
\* neighbour is linkable, and no earlier block has labelled the same cell.
Target(n, cell, shp) == WrapCell(Plus(cell, Blocks[n].off), shp)

BlockHits(cell, occ, grid) ==
    {n \in 1..Len(Blocks) :
        /\ CellOK(Plus(cell, Blocks[n].off), occ.shape)
        /\ Linkable(occ, grid, Target(n, cell, occ.shape))
        /\ \A m \in 1..(n - 1) :
              ~(/\ CellOK(Plus(cell, Blocks[m].off), occ.shape)
                /\ Target(m, cell, occ.shape) = Target(n, cell, occ.shape))}

\* the state the blocks leave: the label grid, _auxCube, the flags and
\* _numberOfNeighbors
LinkNeighbors(cell, occ, grid, sv) ==
    LET hits == BlockHits(cell, occ, grid)
        cells == {Target(n, cell, occ.shape) : n \in hits}
    IN  [grid  |-> [grid EXCEPT !.data =
                      [idx \in DOMAIN grid.data |->
                         IF idx \in cells THEN sv ELSE grid.data[idx]]],
         aux   |-> [a \in Indices(<<3, 3, 3>>) |->
                      IF \E n \in hits : AuxIndex(Blocks[n].off) = a
                      THEN LET n == CHOOSE h \in hits : AuxIndex(Blocks[h].off) = a
                           IN  IF Blocks[n].auxStruct THEN sv ELSE 1
                      ELSE 0],
         flags |-> [f \in FlagNames |-> \E n \in hits : Blocks[n].flag = f],
         numberOfNeighbors |-> Cardinality(hits)]

\* lines 560-563: find_case_number
RECURSIVE Pow2(_)
Pow2(v) == IF v = 0 THEN 1 ELSE 2 * Pow2(v - 1)

CubeValue(cube, flags, v) ==
    IF cube[v + 1] = "True" THEN TRUE ELSE flags[cube[v + 1]]

RECURSIVE CaseSum(_, _, _)
CaseSum(cube, flags, v) ==
    IF v = 8 THEN 0
    ELSE (IF CubeValue(cube, flags, v) THEN Pow2(v) ELSE 0) + CaseSum(cube, flags, v + 1)

find_case_number(cube, flags) == CaseSum(cube, flags, 0)

\* MCOutliers.outliers: the case table.  A case code is listed when its set
\* corners fall into two or more groups; a listed code yields the groups.
\* Corner numbering of a 2x2x2 cube: 0..3 around the lower layer, 4..7 above
\* them.  Under "edge" two set corners are grouped when joined along cube
\* edges through set corners; under "diagonal" also across a face diagonal,
\* so that only two body-diagonal corners are kept apart.
CornerPos == <<<<0, 0, 0>>, <<1, 0, 0>>, <<1, 1, 0>>, <<0, 1, 0>>,
               <<0, 0, 1>>, <<1, 0, 1>>, <<1, 1, 1>>, <<0, 1, 1>>>>

CornerDist(a, b) ==
    Cardinality({d \in 1..3 : CornerPos[a + 1][d] # CornerPos[b + 1][d]})

CornersOf(code) == {v \in 0..7 : (code \div Pow2(v)) % 2 = 1}

RECURSIVE Grow(_, _, _)
Grow(grp, corners, reach) ==
    LET more == {v \in corners : \E u \in grp : CornerDist(u, v) <= reach}
    IN  IF more = grp THEN grp ELSE Grow(more, corners, reach)

Groups(code, reach) == {Grow({v}, CornersOf(code), reach) : v \in CornersOf(code)}

Listed(code, reach) ==
    LET g == Groups(code, reach) IN IF Cardinality(g) >= 2 THEN g ELSE {}

EdgeTable == [code \in 0..255 |-> Listed(code, 1)]
DiagonalTable == [code \in 0..255 |-> Listed(code, 2)]

outliers(kind, code) ==
    IF kind = "edge" THEN EdgeTable[code] ELSE DiagonalTable[code]

\* the retraction with the anchor test inverted: the group holding the
\* expanded cell is discarded and the others are kept
RetractedAnchorGroup(kind, flags) ==
    UNION {{RemoveOffsets[n][m + 1] :
               m \in UNION {s \in outliers(kind, find_case_number(Cubes[n], flags)) :
                               AnchorIndex[n] \in s}} : n \in 1..8}
      \ {NoBranch}

\* a retraction that clears every corner of a listed octant but the anchor
RetractedWholeOctant(kind, flags) ==
    UNION {{RemoveOffsets[n][m + 1] :
               m \in IF outliers(kind, find_case_number(Cubes[n], flags)) # {}
                     THEN (0..7) \ {AnchorIndex[n]} ELSE {}} : n \in 1..8}
      \ {NoBranch}

\* a retraction that clears a neighbour only when every octant holding it
\* lists it apart from the anchor
RetractedUnanimous(kind, flags) ==
    LET votes(n) ==
            {RemoveOffsets[n][m + 1] :
                m \in UNION {s \in outliers(kind, find_case_number(Cubes[n], flags)) :
                                AnchorIndex[n] \notin s}}
    IN  {o \in UNION {votes(n) : n \in 1..8} :
            \A n \in 1..8 :
                (\E m \in (0..7) \ {AnchorIndex[n]} : RemoveOffsets[n][m + 1] = o)
                    => o \in votes(n)}
          \ {NoBranch}

\* lines 565-793: the offsets whose label and _auxCube entry are reset
Retracted(kind, flags) ==
    UNION {{RemoveOffsets[n][m + 1] :
               m \in UNION {s \in outliers(kind, find_case_number(Cubes[n], flags)) :
                               AnchorIndex[n] \notin s}} : n \in 1..8}
      \ {NoBranch}

\* a retraction that resets the labels and leaves _auxCube alone
MarchingCubesExtGridOnly(kind, cell, st) ==
    LET gone == Retracted(kind, st.flags)
        cells == {WrapCell(Plus(cell, o), st.grid.shape) : o \in gone}
    IN  [st EXCEPT
           !.grid = [st.grid EXCEPT !.data =
                       [idx \in DOMAIN st.grid.data |->
                          IF idx \in cells THEN 0 ELSE st.grid.data[idx]]]]

\* lines 539-793
MarchingCubesExt(kind, cell, st) ==
    LET gone == Retracted(kind, st.flags)
        cells == {WrapCell(Plus(cell, o), st.grid.shape) : o \in gone}
    IN  [st EXCEPT
           !.grid = [st.grid EXCEPT !.data =
                       [idx \in DOMAIN st.grid.data |->
                          IF idx \in cells THEN 0 ELSE st.grid.data[idx]]],
           !.aux = [idx \in DOMAIN st.aux |->
                      IF idx \in {AuxIndex(o) : o \in gone} THEN 0 ELSE st.aux[idx]]]

\* lines 795-871: the neighbours whose _auxCube entry is still set are
\* appended to _neighborVal, in source order
Promoted(aux) == SelectSeq(AppendOrder, LAMBDA o : aux[AuxIndex(o)] # 0)

Promote(cell, aux, list) ==
    list \o [n \in 1..Len(Promoted(aux)) |-> Plus(cell, Promoted(aux)[n])]

\* one pass of the while body after the cell is chosen, lines 143-873
ExpandCell(ext, kind, cell, occ, grid, sv) ==
    LET st == LinkNeighbors(cell, occ, grid, sv)
    IN  IF ext THEN MarchingCubesExt(kind, cell, st) ELSE st

\* ------------------------------------------------------------- the scan
\* lines 61-67: the three for loops; iteration r (0-based) of the nest
\* draws <<i, j, k>> from the three range iterators.
IterCell(r, X, Y, Z) ==
    <<r \div ((Y + 1) * (Z + 1)), (r \div (Z + 1)) % (Y + 1), r % (Z + 1)>>

\* The cell iteration r tests, when the nest resumes at iteration `from`
\* with the variables i, j, k holding `cur`: k is assigned by every
\* iteration, j only when the k loop restarts, i only when the j loop
\* restarts; until then the values in `cur` are read.
ScanCell(r, from, cur, dims) ==
    LET it == IterCell(r, dims[1], dims[2], dims[3])
        jBlock == (dims[3] + 1)
        iBlock == (dims[2] + 1) * (dims[3] + 1)
    IN  <<IF (r \div iBlock) * iBlock >= from THEN it[1] ELSE cur[1],
          IF (r \div jBlock) * jBlock >= from THEN it[2] ELSE cur[2],
          it[3]>>

\* lines 61-67: run on from iteration `from` to the first one whose cell is
\* occupied and carries no label
Scan(from, cur, occ, grid, dims) ==
    LET total == (dims[1] + 1) * (dims[2] + 1) * (dims[3] + 1)
        hits == {r \in from..(total - 1) :
                    /\ occ.data[ScanCell(r, from, cur, dims)]
                    /\ ~(grid.data[ScanCell(r, from, cur, dims)] > 0)}
    IN  IF hits = {}
        THEN [found |-> FALSE, pos |-> total,
              cell |-> IF from < total THEN ScanCell(total - 1, from, cur, dims) ELSE cur]
        ELSE LET r == CHOOSE h \in hits : \A g \in hits : h <= g
             IN  [found |-> TRUE, pos |-> r, cell |-> ScanCell(r, from, cur, dims)]

\* ------------------------------------------------------------ statistics
\* line 890: _structValuedGrid[:xlen, :ylen, :zlen]
Crop(grid, X, Y, Z) ==
    [shape |-> <<X, Y, Z>>,
     data  |-> [idx \in Indices(<<X, Y, Z>>) |-> grid.data[idx]]]

\* line 896: np.unique(..., return_counts = True)
Unique(grid) == {grid.data[idx] : idx \in DOMAIN grid.data}
CountOf(grid, l) == Cardinality({idx \in DOMAIN grid.data : grid.data[idx] = l})

RECURSIVE SetToSeq(_)
SetToSeq(S) ==
    IF S = {} THEN <<>>
    ELSE LET m == CHOOSE x \in S : \A y \in S : x <= y
         IN  <<m>> \o SetToSeq(S \ {m})

Counts(grid) == LET u == SetToSeq(Unique(grid))
                IN  [n \in 1..Len(u) |-> CountOf(grid, u[n])]

\* lines 901-903: countsall.sort(); countsall[::-1]
RECURSIVE SortedDescending(_)
SortedDescending(seq) ==
    IF seq = <<>> THEN <<>>
    ELSE LET n == CHOOSE a \in 1..Len(seq) : \A b \in 1..Len(seq) : seq[a] >= seq[b]
         IN  <<seq[n]>> \o SortedDescending(SubSeq(seq, 1, n - 1) \o SubSeq(seq, n + 1, Len(seq)))

RECURSIVE SumSeq(_)
SumSeq(seq) == IF seq = <<>> THEN 0 ELSE Head(seq) + SumSeq(Tail(seq))

\* line 905: countsall[::-1][1]; line 909: sum(countsall[::-1][1:])
ComputeVmax(desc) == desc[2]
ComputeVall(desc) == SumSeq(Tail(desc))

\* line 883: the bounding-box record of a structure
Column(list, a) == {list[n][a] : n \in 1..Len(list)}
Min(S) == CHOOSE x \in S : \A y \in S : x <= y
Max(S) == CHOOSE x \in S : \A y \in S : x >= y
\* a record with the x and y columns exchanged
BoundingBoxTypo(sv, list) ==
    <<sv, Min(Column(list, 2)), Max(Column(list, 2)),
          Min(Column(list, 1)), Max(Column(list, 1)),
          Min(Column(list, 3)), Max(Column(list, 3))>>

BoundingBox(sv, list) ==
    <<sv, Min(Column(list, 1)), Max(Column(list, 1)),
          Min(Column(list, 2)), Max(Column(list, 2)),
          Min(Column(list, 3)), Max(Column(list, 3))>>

\* ------------------------------------------------------------------ state
VARIABLES
    data,                     \* the caller's flat array, passed as c
    threshValList, xlen, ylen, zlen, zFastest,
    writeNeighborInformation, writePercolationData,
    marchingCubesExt,         \* the module-level switch read at line 539
    outlierTable,             \* which case table MCOutliers holds
    c,                        \* the local c: the field, then the padded grid
    pass,                     \* number of thresholds the for loop has taken
    pc, error,
    structVal, structValuedGrid,
    scanPos,                  \* iterations of the scan nest completed
    i, j, k, origVal,
    neighborVal, neighborCounter, loopCounter,
    Vmax, Vall,
    percolationFile, neighborFile,
    returned,
    \* box_count_func.py
    boxInput,                 \* the field boxCountFunc is called with
    boxField,                 \* the array c, which computeFast overwrites
    boxP, boxWidth,           \* p and width
    reverse_range, boxG,      \* the box sizes and how many the loop has taken
    boxN, boxR,               \* the arrays n and r
    boxPc, boxReturned

boxvars == <<boxInput, boxField, boxP, boxWidth, reverse_range, boxG, boxN, boxR,
             boxPc, boxReturned>>

vars == <<boxvars, data, threshValList, xlen, ylen, zlen, zFastest,
          writeNeighborInformation, writePercolationData, marchingCubesExt,
          outlierTable, c, pass, pc, error, structVal, structValuedGrid,
          scanPos, i, j, k, origVal, neighborVal, neighborCounter,
          loopCounter, Vmax, Vall, percolationFile, neighborFile, returned>>

inputs == <<data, threshValList, xlen, ylen, zlen, zFastest,
            writeNeighborInformation, writePercolationData, marchingCubesExt,
            outlierTable>>

labelling == <<structVal, structValuedGrid, scanPos, i, j, k, origVal,
               neighborVal, neighborCounter, loopCounter>>

outputs == <<Vmax, Vall, percolationFile, neighborFile, returned>>

None == "none"

\* ----------------------------------------------------------------- inputs
FieldVals == {-2, -1, 0, 1, 2}
ThreshVals == {Num(-1), Num(0), Num(1), NaN}

RECURSIVE SeqsUpTo(_, _)
SeqsUpTo(S, n) ==
    IF n = 0 THEN {<<>>}
    ELSE LET P == SeqsUpTo(S, n - 1)
         IN  P \cup {Append(q, x) : q \in {q \in P : Len(q) = n - 1}, x \in S}

RECURSIVE SubsetsUpTo(_, _)
SubsetsUpTo(S, n) ==
    IF n = 0 THEN {{}}
    ELSE LET P == SubsetsUpTo(S, n - 1)
         IN  P \cup {q \cup {x} : q \in P, x \in S}

\* a flat array holding 2 at the positions in `cells` and 0 elsewhere: with
\* the threshold 1 exactly the positions in `cells` are occupied
FlatField(n, cells) ==
    [shape |-> <<n>>, data |-> [idx \in Indices(<<n>>) |-> IF idx[1] \in cells THEN 2 ELSE 0]]

DenseShapes ==
    {s \in (1..3) \X (1..3) \X (1..3) : Product(s) <= MaxCells}

\* resolver off, or on with either case table
Switches == {<<FALSE, "edge">>, <<TRUE, "edge">>, <<TRUE, "diagonal">>}

Start(fld, shp, tl, zf, wn, wp, sw) ==
    /\ data = fld
    /\ c = fld
    /\ threshValList = tl
    /\ xlen = shp[1] /\ ylen = shp[2] /\ zlen = shp[3]
    /\ zFastest = zf
    /\ writeNeighborInformation = wn
    /\ writePercolationData = wp
    /\ marchingCubesExt = sw[1]
    /\ outlierTable = sw[2]
    /\ pass = 0
    /\ pc = "for"
    /\ error = None
    /\ structVal = 0
    /\ structValuedGrid = None
    /\ scanPos = 0
    /\ i = 0 /\ j = 0 /\ k = 0
    /\ origVal = <<0, 0, 0>>
    /\ neighborVal = <<>>
    /\ neighborCounter = 0
    /\ loopCounter = 0
    /\ Vmax = 0 /\ Vall = 0
    /\ percolationFile = <<>>
    /\ neighborFile = <<>>
    /\ returned = None

\* every occupancy pattern of every small box, in both memory orders with
\* the resolver off and in C order with it on
InitDense ==
    \E shp \in DenseShapes, sw \in Switches, zf \in BOOLEAN :
        \E cells \in SUBSET (0..(Product(shp) - 1)) :
            /\ sw[1] => zf
            /\ Start(FlatField(Product(shp), cells), shp, <<Num(1)>>, zf, TRUE, TRUE, sw)

\* a few occupied cells anywhere in a 3x3x2 box
InitSparse ==
    \E cells \in SubsetsUpTo(0..17, MaxSparseCells), sw \in Switches :
        Start(FlatField(18, cells), <<3, 3, 2>>, <<Num(1)>>, TRUE, TRUE, TRUE, sw)

\* the 8 corners of a 3x3x3 box; a full 4x4x4 box
InitScenario ==
    \E sw \in Switches :
        \/ Start(FlatField(27, {0, 2, 6, 8, 18, 20, 24, 26}), <<3, 3, 3>>,
                 <<Num(1)>>, TRUE, TRUE, TRUE, sw)
        \/ Start(FlatField(64, 0..63), <<4, 4, 4>>, <<Num(1)>>, TRUE, TRUE, TRUE, sw)

\* every field value against every threshold list
InitThresholds ==
    \E fld \in [Indices(<<2>>) -> FieldVals], wp \in BOOLEAN :
        \E tl \in SeqsUpTo(ThreshVals, MaxThresholds) \ {<<>>} :
            Start([shape |-> <<2>>, data |-> fld], <<1, 1, 2>>, tl, TRUE, FALSE, wp,
                  <<FALSE, "edge">>)

\* boxCountFunc is not called
BoxIdle ==
    /\ boxInput = None /\ boxField = None
    /\ boxP = 0 /\ boxWidth = 0
    /\ reverse_range = <<>> /\ boxG = 0
    /\ boxN = <<>> /\ boxR = <<>>
    /\ boxPc = "idle" /\ boxReturned = None

Init == (InitDense \/ InitSparse \/ InitScenario \/ InitThresholds) /\ BoxIdle

\* ---------------------------------------------------------------- actions
Order == IF zFastest THEN "C" ELSE "F"
PaddedShape == <<xlen + 1, ylen + 1, zlen + 1>>

\* lines 27-44: take the next threshold, reshape c and threshold it.
\* np.reshape raises ValueError when the size of c is not xlen*ylen*zlen.
Threshold ==
    /\ pc = "for"
    /\ pass < Len(threshValList)
    /\ pass' = pass + 1
    /\ IF ReshapeOK(c, <<xlen, ylen, zlen>>)
       THEN /\ c' = ThresholdField(Reshape(c, <<xlen, ylen, zlen>>, Order),
                                   threshValList[pass + 1])
            /\ pc' = "pad"
            /\ UNCHANGED error
       ELSE /\ pc' = "crashed"
            /\ error' = "ValueError"
            /\ UNCHANGED c
    /\ UNCHANGED <<boxvars, inputs, outputs, labelling>>

\* lines 48-59: pad c by one layer per axis and reset the labelling state
Pad ==
    /\ pc = "pad"
    /\ c' = PadGrid(c, xlen, ylen, zlen)
    /\ structVal' = 0
    /\ structValuedGrid' = Zeros(PaddedShape, 0)
    /\ scanPos' = 0
    /\ pc' = "scan"
    /\ UNCHANGED <<boxvars, inputs, outputs, pass, error, i, j, k, origVal, neighborVal,
                   neighborCounter, loopCounter>>

\* an allocation that skips an ID
NewStructValSkipping(sv) == sv + 2

\* line 69: _structVal += 1
NewStructVal(sv) == sv + 1

\* lines 61-81: run the scan on to the next occupied cell without a label
\* and open a structure there; with none left, leave the loops.
ScanNext ==
    /\ pc = "scan"
    /\ LET sc == Scan(scanPos, <<i, j, k>>, c, structValuedGrid, <<xlen, ylen, zlen>>)
       IN  /\ i' = sc.cell[1] /\ j' = sc.cell[2] /\ k' = sc.cell[3]
           /\ IF sc.found
              THEN /\ scanPos' = sc.pos + 1
                   /\ structVal' = NewStructVal(structVal)
                   /\ neighborVal' = <<>>
                   /\ structValuedGrid' =
                          [structValuedGrid EXCEPT !.data[sc.cell] = NewStructVal(structVal)]
                   /\ loopCounter' = 0
                   /\ neighborCounter' = 0
                   /\ origVal' = sc.cell
                   /\ pc' = "while"
              ELSE /\ scanPos' = sc.pos
                   /\ pc' = "stats"
                   /\ UNCHANGED <<structVal, neighborVal, structValuedGrid,
                                  loopCounter, neighborCounter, origVal>>
    /\ UNCHANGED <<boxvars, inputs, outputs, c, pass, error>>

\* lines 129-137: the cell this pass of the while loop expands
CurrentCell ==
    IF loopCounter > 0 THEN neighborVal[neighborCounter + 1] ELSE <<i, j, k>>

\* lines 83-873, one pass of the while loop that does not break
ExpandStep ==
    /\ pc = "while"
    /\ loopCounter > 0 => neighborCounter < Len(neighborVal)
    /\ LET cell == CurrentCell
           st == ExpandCell(marchingCubesExt, outlierTable, cell, c,
                            structValuedGrid, structVal)
       IN  /\ i' = cell[1] /\ j' = cell[2] /\ k' = cell[3]
           /\ neighborCounter' = IF loopCounter > 0 THEN neighborCounter + 1
                                                    ELSE neighborCounter
           /\ structValuedGrid' = st.grid
           /\ neighborVal' = Promote(cell, st.aux, neighborVal)
           /\ loopCounter' = loopCounter + 1
    /\ UNCHANGED <<boxvars, inputs, outputs, c, pass, pc, error, structVal, scanPos, origVal>>

\* i, j, k left at the cell expanded last
KeepCell(orig, cur) == cur

\* lines 875-877: i, j, k = _origiVal, _origjVal, _origkVal
RestoreCell(orig, cur) == orig

\* lines 139-141 and 875-886: the frontier is exhausted; restore i, j, k and
\* write the structure's bounding box
FinishStructure ==
    /\ pc = "while"
    /\ loopCounter > 0
    /\ neighborCounter >= Len(neighborVal)
    /\ i' = RestoreCell(origVal, <<i, j, k>>)[1]
    /\ j' = RestoreCell(origVal, <<i, j, k>>)[2]
    /\ k' = RestoreCell(origVal, <<i, j, k>>)[3]
    /\ IF writeNeighborInformation
       THEN /\ neighborVal' = Append(neighborVal, RestoreCell(origVal, <<i, j, k>>))
            /\ neighborFile' =
                   Append(neighborFile,
                          BoundingBox(structVal,
                                      Append(neighborVal, RestoreCell(origVal, <<i, j, k>>))))
       ELSE UNCHANGED <<neighborVal, neighborFile>>
    /\ pc' = "scan"
    /\ UNCHANGED <<boxvars, inputs, c, pass, error, structVal, structValuedGrid, scanPos,
                   origVal, neighborCounter, loopCounter, Vmax, Vall,
                   percolationFile, returned>>

\* lines 888-918: crop, count the labels, report Vmax and Vall.  Indexing
\* the sorted counts at [1] raises IndexError when the cropped grid holds a
\* single label value.
Statistics ==
    /\ pc = "stats"
    /\ LET cropped == Crop(structValuedGrid, xlen, ylen, zlen)
           desc == SortedDescending(Counts(cropped))
       IN  /\ structValuedGrid' = cropped
           /\ IF Len(desc) >= 2
              THEN /\ Vmax' = ComputeVmax(desc)
                   /\ Vall' = ComputeVall(desc)
                   /\ percolationFile' =
                          IF writePercolationData
                          THEN Append(percolationFile,
                                      <<threshValList[pass], ComputeVmax(desc),
                                        ComputeVall(desc)>>)
                          ELSE percolationFile
                   /\ pc' = "for"
                   /\ UNCHANGED error
              ELSE /\ pc' = "crashed"
                   /\ error' = "IndexError"
                   /\ UNCHANGED <<Vmax, Vall, percolationFile>>
    /\ UNCHANGED <<boxvars, inputs, c, pass, structVal, scanPos, i, j, k, origVal,
                   neighborVal, neighborCounter, loopCounter, neighborFile, returned>>

\* line 921: return _structValuedGrid
Return ==
    /\ pc = "for"
    /\ pass = Len(threshValList)
    /\ returned' = structValuedGrid
    /\ pc' = "done"
    /\ UNCHANGED <<boxvars, inputs, c, pass, error, labelling, Vmax, Vall,
                   percolationFile, neighborFile>>

Next == Threshold \/ Pad \/ ScanNext \/ ExpandStep \/ FinishStructure \/ Statistics \/ Return

Spec == Init /\ [][Next]_vars

\* ------------------------------------------------------------- properties
Dims == <<xlen, ylen, zlen>>

\* the value of the caller's array that reshaping puts at cell idx
FieldAt(idx) ==
    data.data[<<IF zFastest
                THEN (idx[1] * ylen + idx[2]) * zlen + idx[3]
                ELSE idx[1] + xlen * (idx[2] + ylen * idx[3])>>]

\* the labelling of the current pass runs on c and structValuedGrid
Labelling == pc \in {"scan", "while", "stats"}
ScanFinished == pc = "stats"
\* the statistics of the current pass have been reported
Reported == pass >= 1 /\ pc \in {"for", "done"}

Occupied == {idx \in DOMAIN c.data : c.data[idx]}
Label(idx) == structValuedGrid.data[idx]

Adjacent(a, b) ==
    /\ a # b
    /\ \A d \in 1..3 : a[d] - b[d] \in {-1, 0, 1}

CornerAdjacent(a, b) == \A d \in 1..3 : a[d] - b[d] \in {-1, 1}

RECURSIVE Reach(_, _)
Reach(S, occ) ==
    LET more == S \cup {v \in occ : \E u \in S : Adjacent(u, v)}
    IN  IF more = S THEN S ELSE Reach(more, occ)

\* the maximal 26-connected sets of occupied cells
Components == {Reach({a}, Occupied) : a \in Occupied}

MaxOrZero(S) == IF S = {} THEN 0 ELSE Max(S)

\* C1: for a threshold list with two or more entries every pass thresholds
\* the original scalar field and reads nothing an earlier pass wrote: a pass
\* that has begun is not aborted, and the grid it labels is the original
\* field thresholded at its own threshold (the label grid and the record are
\* functions of that grid alone).
C1_EveryPassThresholdsOriginal ==
    pass >= 1 =>
        /\ error # "ValueError"
        /\ pc = "pad" =>
             c = ThresholdField(Reshape(data, Dims, Order), threshValList[pass])
        /\ Labelling =>
             c = PadGrid(ThresholdField(Reshape(data, Dims, Order), threshValList[pass]),
                         xlen, ylen, zlen)

\* C2: the reported Vmax is the largest cell count among the labels > 0 of
\* the cropped label grid and Vall the sum of the cell counts of all labels
\* > 0, whatever the relative size of background and structures.
C2_VmaxVallContract ==
    Reported =>
        /\ Vmax = MaxOrZero({CountOf(structValuedGrid, l) :
                               l \in Unique(structValuedGrid) \ {0}})
        /\ Vall = Cardinality({idx \in DOMAIN structValuedGrid.data :
                                 structValuedGrid.data[idx] > 0})

\* C3: a pass whose occupancy grid is all empty completes and produces the
\* percolation record (threshold, 0, 0).
C3_EmptyGridRecord ==
    (/\ pass >= 1
     /\ writePercolationData
     /\ pc \in {"for", "done"} \/ (pc = "crashed" /\ error = "IndexError")
     /\ Occupied = {})
    => /\ pc # "crashed"
       /\ Len(percolationFile) = pass
       /\ percolationFile[pass] = <<threshValList[pass], 0, 0>>

\* C9: a NaN entry of the threshold list is skipped: it starts no labelling
\* pass, writes no record and does not stop the run.
C9_NaNSkipped ==
    (pass >= 1 /\ threshValList[pass].nan) =>
        /\ pc \in {"for", "done"}
        /\ error = None
        /\ Len(percolationFile) < pass

\* C10: for a numeric threshold t the thresholded grid has the shape of the
\* field, and a cell holding v is occupied exactly when v > t if t > 0 and
\* exactly when v < t if t <= 0.
C10_ThresholdRule ==
    (pc = "pad" /\ ~threshValList[pass].nan) =>
        LET t == threshValList[pass].val
        IN  /\ c.shape = Dims
            /\ DOMAIN c.data = Indices(Dims)
            /\ \A idx \in Indices(Dims) :
                  c.data[idx] <=> (IF t > 0 THEN FieldAt(idx) > t ELSE FieldAt(idx) < t)

\* a thresholding at t = 0 that occupies a negative cell and leaves a
\* positive one empty
C10_Witness ==
    /\ pc = "pad"
    /\ threshValList[pass] = Num(0)
    /\ \E a, b \in Indices(Dims) :
          FieldAt(a) < 0 /\ c.data[a] /\ FieldAt(b) > 0 /\ ~c.data[b]

\* lexicographic scan position of a cell of the padded grid
Rank(idx) == (idx[1] * (ylen + 1) + idx[2]) * (zlen + 1) + idx[3]

Padding == {idx \in Indices(PaddedShape) :
               idx[1] = xlen \/ idx[2] = ylen \/ idx[3] = zlen}

LabelsPresent == {Label(idx) : idx \in Indices(PaddedShape)} \ {0}

\* C4: when the labelling scan has finished (resolver on or off) every
\* occupied cell carries a positive label, every unoccupied cell and every
\* padding cell carries 0; in the cropped grid the counts of the labels > 0
\* sum to the number of occupied cells and label 0 counts the unoccupied ones.
C4_LabelInvariant ==
    ScanFinished =>
        LET cropped == Crop(structValuedGrid, xlen, ylen, zlen)
            counts == Counts(cropped)
            labels == SetToSeq(Unique(cropped))
            positive == {n \in 1..Len(labels) : labels[n] > 0}
        IN  /\ \A idx \in Indices(PaddedShape) :
                  IF c.data[idx] THEN Label(idx) > 0 ELSE Label(idx) = 0
            /\ \A idx \in Padding : Label(idx) = 0
            /\ SumSeq([n \in 1..Len(labels) |->
                         IF n \in positive THEN counts[n] ELSE 0])
                 = Cardinality(Occupied \cap Indices(Dims))
            /\ CountOf(cropped, 0) = Cardinality(Indices(Dims) \ Occupied)

\* the resolver has split two touching occupied cells and both are labelled
C4_Witness ==
    /\ ScanFinished
    /\ marchingCubesExt
    /\ \E a, b \in Occupied :
          Adjacent(a, b) /\ Label(a) > 0 /\ Label(b) > 0 /\ Label(a) # Label(b)

\* C5: with the resolver disabled, two occupied cells joined by a path of
\* 26-adjacent occupied cells carry the same label after labelling; two cells
\* adjacent only through a corner merge, and a fully occupied grid is one
\* structure holding all its cells.
C5_ConnectedShareLabel ==
    (ScanFinished /\ ~marchingCubesExt) =>
        /\ \A comp \in Components : \A a, b \in comp : Label(a) = Label(b)
        /\ Occupied = Indices(Dims) =>
             (structVal = 1 /\ \A a \in Indices(Dims) : Label(a) = 1)

\* two cells that touch only through a corner, alone in the grid, merged
C5_Witness ==
    /\ ScanFinished
    /\ ~marchingCubesExt
    /\ Cardinality(Occupied) = 2
    /\ \E a, b \in Occupied : CornerAdjacent(a, b) /\ Label(a) = 1 /\ Label(b) = 1

\* C6: with the resolver disabled, two cells carry the same positive label
\* only if a path of 26-adjacent occupied cells inside the grid joins them.
C6_SameLabelConnected ==
    (ScanFinished /\ ~marchingCubesExt) =>
        LET comps == Components
        IN  \A g, h \in comps :
                g # h => \A a \in g, b \in h : ~(Label(a) > 0 /\ Label(a) = Label(b))

\* the 8 corners of a 3x3x3 grid end in 8 structures
C6_Witness ==
    /\ ScanFinished
    /\ ~marchingCubesExt
    /\ Dims = <<3, 3, 3>>
    /\ Occupied = {<<a, b, d>> : a \in {0, 2}, b \in {0, 2}, d \in {0, 2}}
    /\ structVal = 8
    /\ Cardinality({Label(a) : a \in Occupied}) = 8

\* the flag raised for a neighbour offset, and the place of a flag in an
\* octant list
FlagOf(off) == (CHOOSE n \in 1..Len(Blocks) : Blocks[n].off = off)
OffsetOf(a, b) == <<b[1] - a[1], b[2] - a[2], b[3] - a[3]>>

\* the case table lists the code of the octant holding the anchor and the
\* corner neighbour at `off`, with the two corners in different subsets
ListedApart(off) ==
    \E n \in 1..8, m \in 0..7 :
        /\ Cubes[n][m + 1] = Blocks[FlagOf(off)].flag
        /\ LET groups == outliers(outlierTable, Pow2(AnchorIndex[n]) + Pow2(m))
           IN  \E g, h \in groups : g # h /\ AnchorIndex[n] \in g /\ m \in h

\* the occupied cells are two cells touching only through a corner
CanonicalAmbiguous ==
    /\ Cardinality(Occupied) = 2
    /\ \E a, b \in Occupied :
          /\ Rank(a) < Rank(b)
          /\ CornerAdjacent(a, b)
          /\ ListedApart(OffsetOf(a, b))

\* C7: a grid whose occupied cells form a canonical ambiguous corner
\* configuration yields 1 structure with the resolver disabled and 2 with
\* the resolver enabled.
C7_DisambiguationEffect ==
    (ScanFinished /\ CanonicalAmbiguous) =>
        /\ structVal = (IF marchingCubesExt THEN 2 ELSE 1)
        /\ Cardinality(LabelsPresent) = (IF marchingCubesExt THEN 2 ELSE 1)

C7_Witness ==
    /\ ScanFinished
    /\ CanonicalAmbiguous
    /\ marchingCubesExt
    /\ structVal = 2
    /\ Cardinality(LabelsPresent) = 2

FirstRank(l) == Min({Rank(idx) : idx \in {q \in Indices(PaddedShape) : Label(q) = l}})

\* C8: within a pass the structure IDs are 1, 2, 3, ... in first-encounter
\* scan order and never reused: the positive labels in the grid are exactly
\* 1..N, N the number of structures, and for a < b the first cell labelled a
\* precedes the first cell labelled b (resolver on or off).
C8_FirstEncounterNumbering ==
    ScanFinished =>
        /\ LabelsPresent = 1..structVal
        /\ \A a, b \in 1..structVal : a < b => FirstRank(a) < FirstRank(b)

C8_Witness ==
    /\ ScanFinished
    /\ marchingCubesExt
    /\ structVal >= 3
    /\ LabelsPresent = 1..structVal

\* the cells of the padded grid that carry label l
CellsOf(l) == {idx \in Indices(PaddedShape) : Label(idx) = l}

Extent(S, a) == {idx[a] : idx \in S}

\* C11: with bounding-box export enabled exactly one record is appended per
\* structure (the record of structure n is the n-th one, written when its
\* expansion ends), and when the scan has finished the record of structure n
\* holds the minimum and maximum coordinate per axis over exactly the cells
\* labelled n in the final label grid (resolver on or off).
C11_BoundingBoxRecords ==
    (writeNeighborInformation /\ Labelling) =>
        /\ Len(neighborFile) = (IF pc = "while" THEN structVal - 1 ELSE structVal)
        /\ \A n \in 1..Len(neighborFile) : neighborFile[n][1] = n
        /\ ScanFinished =>
             \A n \in 1..structVal :
                 /\ CellsOf(n) # {}
                 /\ neighborFile[n] =
                      <<n, Min(Extent(CellsOf(n), 1)), Max(Extent(CellsOf(n), 1)),
                           Min(Extent(CellsOf(n), 2)), Max(Extent(CellsOf(n), 2)),
                           Min(Extent(CellsOf(n), 3)), Max(Extent(CellsOf(n), 3))>>

\* two structures after a resolver split, one of them longer along y than
\* along x
C11_Witness ==
    /\ ScanFinished
    /\ writeNeighborInformation
    /\ marchingCubesExt
    /\ Len(neighborFile) = 2
    /\ \E n \in 1..2 : neighborFile[n][3] - neighborFile[n][2]
                          < neighborFile[n][5] - neighborFile[n][4]

\* the frontier list holds no cell twice and never the structure's root
FrontierDistinct ==
    /\ \A a, b \in 1..Len(neighborVal) : a # b => neighborVal[a] # neighborVal[b]
    /\ \A a \in 1..Len(neighborVal) : neighborVal[a] # origVal

\* the number of iterations of the scan nest
ScanLength == (xlen + 1) * (ylen + 1) * (zlen + 1)

\* C12: on every finite grid the expansion of each structure terminates and
\* the labelling pass reaches its end, resolver on or off, and a cell is
\* appended to the frontier of a structure at most once.  Stated through the
\* loop counters: the frontier holds distinct occupied cells other than the
\* root, every pass of the while loop consumes one pending entry (or leaves
\* the loop) and counts _loopCounter up, which never exceeds the number of
\* occupied cells; every resumption of the scan moves on by at least one
\* iteration (or ends the scan) and never beyond the last one.
C12_Termination ==
    /\ [](pc = "while" =>
            /\ FrontierDistinct
            /\ \A a \in 1..Len(neighborVal) : neighborVal[a] \in Occupied
            /\ neighborCounter <= Len(neighborVal)
            /\ loopCounter <= neighborCounter + 1
            /\ loopCounter <= Cardinality(Occupied))
    /\ [](pc \in {"scan", "while"} => scanPos <= ScanLength)
    /\ [][pc = "while" =>
            \/ pc' = "while" /\ loopCounter' = loopCounter + 1 /\ scanPos' = scanPos
                 /\ Len(neighborVal') - neighborCounter' >= 0
            \/ pc' = "scan" /\ neighborCounter = Len(neighborVal) /\ scanPos' = scanPos]_vars
    /\ [][pc = "scan" =>
            \/ pc' = "while" /\ scanPos' > scanPos
            \/ pc' = "stats"]_vars

\* a pass has ended after a structure with a frontier of three cells or more
\* was expanded with the resolver on
C12_Witness ==
    /\ ScanFinished
    /\ marchingCubesExt
    /\ neighborCounter >= 3
    /\ neighborCounter + 1 = Len(neighborVal)

\* C14: one structure is labelled entirely before the next begins.  A new
\* structure ID is allocated only by the scan, one above the last, and the
\* while loop is left for the scan only with the frontier exhausted; from
\* then on no cell is given the label of an earlier structure nor loses it;
\* the bounding-box record of a structure is written in the step that leaves
\* its exhausted frontier, hence before the next ID is allocated.
C14_OneStructureAtATime ==
    /\ [][structVal' # structVal =>
            \/ pc = "pad" /\ structVal' = 0
            \/ pc = "scan" /\ pc' = "while" /\ structVal' = structVal + 1]_vars
    /\ [][(pc = "while" /\ pc' # "while") =>
            pc' = "scan" /\ loopCounter > 0 /\ neighborCounter = Len(neighborVal)]_vars
    /\ [][(pc \in {"scan", "while"} /\ pc' \in {"scan", "while", "stats"}) =>
            \A idx \in Indices(PaddedShape) : \A l \in 1..(structVal' - 1) :
                (structValuedGrid.data[idx] = l) <=> (structValuedGrid'.data[idx] = l)]_vars
    /\ [][neighborFile' # neighborFile =>
            /\ pc = "while" /\ pc' = "scan" /\ neighborCounter = Len(neighborVal)
            /\ Len(neighborFile') = Len(neighborFile) + 1
            /\ neighborFile'[Len(neighborFile')][1] = structVal]_vars
    /\ []((writeNeighborInformation /\ pc = "scan") => Len(neighborFile) = structVal)

\* the second structure is being expanded with the resolver on, the record
\* of the first is written and the cells of the first keep their label
C14_Witness ==
    /\ pc = "while"
    /\ marchingCubesExt
    /\ structVal = 2
    /\ loopCounter >= 2
    /\ Len(neighborFile) = 1
    /\ Cardinality(CellsOf(1)) >= 2

\* the label grid as the 26 neighbour blocks of the current step leave it,
\* before the resolver runs
LinkedGrid == LinkNeighbors(CurrentCell, c, structValuedGrid, structVal).grid

\* C15: with the resolver enabled an expansion step only filters the
\* neighbours newly linked in that step: a label it resets to 0 belongs to a
\* cell that was unlabelled when the step began, a reset cell is not among
\* the frontier entries the step adds, the entries added are newly linked
\* cells that keep the label, and no cell labelled before the step (and no
\* earlier frontier entry) is changed.
C15_ResolverIsFilter ==
    [][(pc = "while" /\ pc' = "while" /\ marchingCubesExt) =>
        \A linked \in {LinkedGrid},
           added \in {{neighborVal'[a] : a \in (Len(neighborVal) + 1)..Len(neighborVal')}} :
            /\ SubSeq(neighborVal', 1, Len(neighborVal)) = neighborVal
            /\ \A idx \in Indices(PaddedShape) :
                  /\ structValuedGrid.data[idx] > 0 =>
                        structValuedGrid'.data[idx] = structValuedGrid.data[idx]
                  /\ structValuedGrid'.data[idx] # linked.data[idx] =>
                        /\ structValuedGrid.data[idx] = 0
                        /\ structValuedGrid'.data[idx] = 0
                        /\ idx \notin added
            /\ \A idx \in added :
                  /\ structValuedGrid.data[idx] = 0
                  /\ structValuedGrid'.data[idx] = structVal]_vars

\* the first step of a structure has linked and kept one neighbour of the
\* root and reset another
C15_Witness ==
    /\ pc = "while"
    /\ marchingCubesExt
    /\ loopCounter = 1
    /\ Len(neighborVal) >= 1
    /\ \E idx \in Occupied : Adjacent(idx, origVal) /\ Label(idx) = 0

\* the octants whose list holds flag f, and the index of f in such a list
OctantsOf(f) == {q \in 1..8 : \E m \in 0..7 : Cubes[q][m + 1] = f}
PosIn(q, f) == CHOOSE m \in 0..7 : Cubes[q][m + 1] = f

\* octant q does not list its case code, or lists it with the neighbour
\* flagged f in the subset of the anchor
Unambiguous(q, f, flags) ==
    LET groups == outliers(outlierTable, find_case_number(Cubes[q], flags))
    IN  \/ groups = {}
        \/ \E g \in groups : AnchorIndex[q] \in g /\ PosIn(q, f) \in g

RootFlags ==
    [f \in FlagNames |->
        \E n \in 1..Len(Blocks) :
            /\ Blocks[n].flag = f
            /\ CellOK(Plus(origVal, Blocks[n].off), PaddedShape)
            /\ c.data[Target(n, origVal, PaddedShape)]
            /\ Label(Target(n, origVal, PaddedShape)) \in {0, structVal}]

PointsBelow(cell, off) == \E d \in 1..3 : cell[d] + off[d] < 0

\* C17 (as stated): for a cell with coordinate 0 on some axis the neighbour
\* offsets pointing to coordinate -1 are skipped without any access: the
\* index is refused, so no cell's occupancy or label is read or written in
\* place of the out-of-range neighbour.
C17_BelowRangeNeverAccessed ==
    [][(pc = "while" /\ pc' = "while") =>
        \A n \in 1..Len(Blocks) :
            PointsBelow(CurrentCell, Blocks[n].off) =>
                ~CellOK(Plus(CurrentCell, Blocks[n].off), PaddedShape)]_vars

\* C17 (amended): for a cell with coordinate 0 on some axis a neighbour
\* offset pointing to coordinate -1 is not refused: the index wraps to the
\* padding layer of that axis, whose occupancy is read and is false; the
\* neighbour is therefore not linked, its label is neither read nor
\* written, and the resolver's retraction does not name it.
C17_BelowRangeReadsPadding ==
    [][(pc = "while" /\ pc' = "while") =>
        \A st \in {LinkNeighbors(CurrentCell, c, structValuedGrid, structVal)} :
            \A n \in 1..Len(Blocks) :
                PointsBelow(CurrentCell, Blocks[n].off) =>
                    /\ CellOK(Plus(CurrentCell, Blocks[n].off), PaddedShape)
                    /\ Target(n, CurrentCell, PaddedShape) \in Padding
                    /\ ~c.data[Target(n, CurrentCell, PaddedShape)]
                    /\ ~st.flags[Blocks[n].flag]
                    /\ structValuedGrid.data[Target(n, CurrentCell, PaddedShape)] = 0
                    /\ structValuedGrid'.data[Target(n, CurrentCell, PaddedShape)] = 0
                    /\ Target(n, CurrentCell, PaddedShape) \notin
                          {neighborVal'[a] : a \in 1..Len(neighborVal')}
                    /\ marchingCubesExt =>
                          Blocks[n].off \notin Retracted(outlierTable, st.flags)]_vars

\* the cell <<0, 0, 0>> has been expanded with the resolver on and has
\* linked a neighbour
C17_Witness ==
    /\ pc = "while"
    /\ marchingCubesExt
    /\ loopCounter = 1
    /\ <<i, j, k>> = <<0, 0, 0>>
    /\ Len(neighborVal) >= 1

\* the position of corner index m of an octant relative to corner index 0,
\* read off the branches of the octant anchored at index 0
OctantPos(m) == RemoveOffsets[5][m + 1]

Minus(a, b) == <<a[1] - b[1], a[2] - b[2], a[3] - b[3]>>

\* C18: the octant tables the resolver works with are mutually consistent.
\* The positions of the
\* indices 0..7 are the eight corners of one 2x2x2 cube; in every octant n
\* the cell cleared for index m lies where index m lies relative to the
\* index tested as anchor; that anchor index is the position of the constant
\* True in the octant's list; the flag at position m of octant n is the
\* newly-linked flag of the very cell the branch for m clears; and every
\* corner neighbour belongs to 1 octant, every edge neighbour to 2 and every
\* face neighbour to 4.
C18_OctantTablesConsistent ==
    marchingCubesExt =>
        /\ \E ys \in {{-1, 0}, {0, 1}} :
              {OctantPos(m) : m \in 0..7} = {0, 1} \X ys \X {0, 1}
        /\ \A n \in 1..8 :
              /\ {m \in 0..7 : Cubes[n][m + 1] = "True"} = {AnchorIndex[n]}
              /\ \A m \in (0..7) \ {AnchorIndex[n]} :
                    /\ RemoveOffsets[n][m + 1] = Minus(OctantPos(m), OctantPos(AnchorIndex[n]))
                    /\ \E b \in 1..Len(Blocks) :
                          /\ Blocks[b].flag = Cubes[n][m + 1]
                          /\ Blocks[b].off = RemoveOffsets[n][m + 1]
        /\ \A b \in 1..Len(Blocks) :
              Cardinality(OctantsOf(Blocks[b].flag)) =
                  Pow2(Cardinality({d \in 1..3 : Blocks[b].off[d] = 0}))
        /\ Cardinality({Blocks[b].flag : b \in 1..Len(Blocks)}) = 26
        /\ Cardinality({Blocks[b].off : b \in 1..Len(Blocks)}) = 26

\* the tables have split a connected set of three or more occupied cells
C18_Witness ==
    /\ ScanFinished
    /\ marchingCubesExt
    /\ Cardinality(Occupied) >= 3
    /\ Cardinality(Components) = 1
    /\ structVal >= 2

\* ------------------------------------------------------ box_count_func.py
MaxBoxCells == 2
BoxPowers == {0, 1, 2}

\* line 87: n is a float32 array; integers up to 2^24 are stored exactly,
\* larger ones are rounded to the nearest representable value, ties to even
Float32Exact == 16777216

RECURSIVE Ulp(_, _)
Ulp(v, s) == IF v < Float32Exact * s THEN s ELSE Ulp(v, 2 * s)

Float32(v) ==
    LET s == Ulp(v, 1)
        q == v \div s
        r == v % s
    IN  IF 2 * r < s THEN q * s
        ELSE IF 2 * r > s THEN (q + 1) * s
        ELSE IF q % 2 = 0 THEN q * s ELSE (q + 1) * s

\* lines 42-50
getSum(X, Y, Z, array) ==
    Cardinality({idx \in Indices(<<X, Y, Z>>) : array.data[idx]})

\* line 86: range(int(p))[::-1]
ReverseRange(p) == [m \in 1..p |-> p - m]

\* line 88: 2**np.array(range(int(p)+1))
BoxSizes(p) == [m \in 1..(p + 1) |-> Pow2(m - 1)]

\* line 57: int(round(siz/2)), Python rounding halves to even
RoundHalf(siz) ==
    LET q == siz \div 2
    IN  IF siz % 2 = 0 THEN q ELSE IF q % 2 = 0 THEN q ELSE q + 1

\* lines 59-61: range(0, int(width-siz)+1, int(siz))
Range(lo, hi, step) == {v \in lo..(hi - 1) : (v - lo) % step = 0}

BoxOrigins(width, siz) ==
    {<<a, b, d>> : a \in Range(0, width - siz + 1, siz),
                   b \in Range(0, width - siz + 1, siz),
                   d \in Range(0, width - siz + 1, siz)}

\* an "or" over the four cells of the lower layer only
MergeLowerLayer(arr, pos, siz2) ==
    \E a \in {0, siz2}, b \in {0, siz2} : arr.data[<<pos[1] + a, pos[2] + b, pos[3]>>]

\* line 62: the "or" of the eight cells at pos + {0, siz2}^3
Merge(arr, pos, siz2) ==
    \E a \in {0, siz2}, b \in {0, siz2}, d \in {0, siz2} :
        arr.data[<<pos[1] + a, pos[2] + b, pos[3] + d>>]

\* lines 59-63 for one box size: every box origin receives the "or" of its
\* eight sub-box origins.  A box reads only cells of its own and writes its
\* own origin, so the order of the loops does not show.
Coarsen(arr, width, siz) ==
    [arr EXCEPT !.data =
        [idx \in DOMAIN arr.data |->
            IF idx \in BoxOrigins(width, siz)
            THEN Merge(arr, idx, RoundHalf(siz))
            ELSE arr.data[idx]]]

\* line 63: c_sum, the number of box origins left true
BoxSum(arr, width, siz) ==
    Cardinality({pos \in BoxOrigins(width, siz) : Merge(arr, pos, RoundHalf(siz))})

BoxCube(w, cells) ==
    [shape |-> <<w, w, w>>, data |-> [idx \in Indices(<<w, w, w>>) |-> idx \in cells]]

\* boolean fields in a cube of side 2^p: all of them for p <= 1; for larger
\* p those with few true cells, and those with at most one false cell
BoxFields(p) ==
    LET all == Indices(<<Pow2(p), Pow2(p), Pow2(p)>>)
    IN  IF p <= 1 THEN SUBSET all
        ELSE SubsetsUpTo(all, MaxBoxCells) \cup {all \ q : q \in SubsetsUpTo(all, 1)}

BoxInit ==
    /\ Start(FlatField(1, {}), <<1, 1, 1>>, <<Num(1)>>, TRUE, FALSE, FALSE,
             <<FALSE, "edge">>)
    /\ \E p \in BoxPowers :
          \E cells \in BoxFields(p) :
              /\ boxP = p
              /\ boxWidth = Pow2(p)
              /\ boxInput = BoxCube(Pow2(p), cells)
              /\ boxField = BoxCube(Pow2(p), cells)
    /\ reverse_range = <<>> /\ boxG = 0
    /\ boxN = <<>> /\ boxR = <<>>
    /\ boxPc = "call" /\ boxReturned = None

\* lines 86-90: boxCountFunc builds reverse_range, n and r
BoxCountFunc ==
    /\ boxPc = "call"
    /\ reverse_range' = ReverseRange(boxP)
    /\ boxN' = [m \in 1..(Len(ReverseRange(boxP)) + 1) |-> 0]
    /\ boxR' = BoxSizes(boxP)
    /\ boxPc' = "sum"
    /\ UNCHANGED <<boxInput, boxField, boxP, boxWidth, boxG, boxReturned,
                   inputs, c, pass, pc, error, labelling, outputs>>

\* line 52: n[0] = getSum(xlen, ylen, zlen, c)
GetSum ==
    /\ boxPc = "sum"
    /\ boxN' = [boxN EXCEPT ![1] =
                   Float32(getSum(boxField.shape[1], boxField.shape[2],
                                  boxField.shape[3], boxField))]
    /\ boxG' = 0
    /\ boxPc' = "loop"
    /\ UNCHANGED <<boxInput, boxField, boxP, boxWidth, reverse_range, boxR,
                   boxReturned, inputs, c, pass, pc, error, labelling, outputs>>

\* lines 54-64: one box size g of reverse_range
CountBoxes ==
    /\ boxPc = "loop"
    /\ boxG < Len(reverse_range)
    /\ LET g == reverse_range[boxG + 1]
           siz == Pow2(boxP - g)
       IN  /\ boxField' = Coarsen(boxField, boxWidth, siz)
           /\ boxN' = [boxN EXCEPT ![WrapIndex(-g - 1, Len(boxN)) + 1] =
                          Float32(BoxSum(boxField, boxWidth, siz))]
    /\ boxG' = boxG + 1
    /\ UNCHANGED <<boxInput, boxP, boxWidth, reverse_range, boxR, boxPc,
                   boxReturned, inputs, c, pass, pc, error, labelling, outputs>>

\* lines 66 and 92-94: return n, r
BoxReturn ==
    /\ boxPc = "loop"
    /\ boxG = Len(reverse_range)
    /\ boxReturned' = [n |-> boxN, r |-> boxR]
    /\ boxPc' = "done"
    /\ UNCHANGED <<boxInput, boxField, boxP, boxWidth, reverse_range, boxG,
                   boxN, boxR, inputs, c, pass, pc, error, labelling, outputs>>

BoxNext == BoxCountFunc \/ GetSum \/ CountBoxes \/ BoxReturn

BoxSpec == BoxInit /\ [][BoxNext]_vars

TrueCells == {idx \in DOMAIN boxInput.data : boxInput.data[idx]}

\* the aligned boxes of side `side` of the cube, as sets of cells
AlignedBoxes(side) ==
    {{idx \in DOMAIN boxInput.data : \A d \in 1..3 : idx[d] \div side = o[d]} :
        o \in Indices(<<boxWidth \div side, boxWidth \div side, boxWidth \div side>>)}

\* C13: for a boolean field in a cube of side 2^p, boxCountFunc returns n
\* with p + 1 entries, n[m] (m = 0..p) being the number of aligned boxes of
\* side 2^m that hold at least one true cell; n[0] is the number of true
\* cells and n[p] is 1 for a non-empty field.
C13_BoxCounts ==
    boxPc = "done" =>
        /\ Len(boxReturned.n) = boxP + 1
        /\ \A m \in 0..boxP :
              boxReturned.n[m + 1] =
                  Cardinality({b \in AlignedBoxes(Pow2(m)) : b \cap TrueCells # {}})
        /\ boxReturned.n[1] = Cardinality(TrueCells)
        /\ TrueCells # {} => boxReturned.n[boxP + 1] = 1

\* a field in the cube of side 4 whose counts fall at every box size
C13_Witness ==
    /\ boxPc = "done"
    /\ boxP = 2
    /\ boxReturned.n[1] > boxReturned.n[2]
    /\ boxReturned.n[2] > boxReturned.n[3]

====
